---------------------------- MODULE Spec2Model ----------------------------
(***************************************************************************)
(* HTTP-Prober (src/main.py): a main thread that loads a YAML              *)
(* configuration, registers a SIGHUP reload handler and then loops,        *)
(* composing the target endpoint from the global config and starting one   *)
(* thread per tick that runs http_request and updates the Prometheus       *)
(* counters and histogram.                                                 *)
(***************************************************************************)
EXTENDS Integers, Sequences, FiniteSets, TLC

(***************************************************************************)
(* Bounds of the model.                                                    *)
(***************************************************************************)
\* number of threads main() starts in a run
MaxAttempts == 2
\* number of SIGHUP signals delivered in a run
MaxReloads == 1

(***************************************************************************)
(* YAML documents.  A parsed document is either a mapping, dict(items),    *)
(* or some other YAML value.  Scalars given to int()/float() are numbers,  *)
(* the float not-a-number (YAML .nan) or non-numeric text.                 *)
(***************************************************************************)
YamlDict(items) == [dict |-> items]
YamlOther == [other |-> "- item"]
Num(n) == [num |-> n]
Text(s) == [text |-> s]
NaN == [nan |-> TRUE]

\* A file that open() cannot read (IOError).
Unreadable == [ioerror |-> TRUE]

DocA ==
    YamlDict([server |-> [port |-> Num(9000)],
              target |-> [address |-> "a.example", port |-> Num(8080),
                          protocol |-> "https", pathname |-> "/",
                          frequency |-> Num(2), timeout |-> Num(3),
                          verify_ssl |-> FALSE]])

\* Everything but the address defaulted.
DocC == YamlDict([target |-> [address |-> "c.example"]])

DocNoTarget == YamlDict([server |-> [port |-> Num(9000)]])

DocNoAddress == YamlDict([target |-> [port |-> Num(8080)]])

DocWith(field, value) ==
    YamlDict([target |-> (field :> value) @@ [address |-> "b.example"]])

\* DocC with frequency: .nan
DocNaN == YamlDict([target |-> [address |-> "c.example", frequency |-> NaN]])

DocBadServerPort ==
    YamlDict([server |-> [port |-> Num(0)], target |-> [address |-> "b.example"]])

\* What the configuration file can hold when it is loaded.
Documents ==
    << DocA, DocC, Unreadable, YamlOther, DocNoTarget, DocNoAddress,
       DocWith("port", Num(0)), DocWith("port", Num(65536)),
       DocWith("port", Text("abc")), DocWith("port", NaN),
       DocWith("frequency", Num(0)), DocWith("frequency", Text("abc")),
       DocWith("timeout", Num(-1)), DocWith("timeout", Text("abc")),
       DocBadServerPort, DocNaN >>

(***************************************************************************)
(* check_port, check_frequency, check_timeout: the validated value, or     *)
(* argparse.ArgumentTypeError.                                             *)
(***************************************************************************)
Returns(v) == [value |-> v]
Raises(e) == [raises |-> e]
Raised(r) == "raises" \in DOMAIN r

\* int(x): ValueError on non-numeric text and on not-a-number
ToInt(x) == IF "num" \in DOMAIN x THEN Returns(x.num) ELSE Raises("ValueError")

\* float(x): ValueError on non-numeric text.  A float is kept as the scalar:
\* Num(n) or NaN.
ToFloat(x) == IF "text" \in DOMAIN x THEN Raises("ValueError") ELSE Returns(x)

\* x <= bound and x > bound on floats: every comparison with NaN is false.
FloatLe(x, bound) == "num" \in DOMAIN x /\ x.num <= bound
FloatGt(x, bound) == "num" \in DOMAIN x /\ x.num > bound

check_port(port) ==
    LET n == ToInt(port) IN
    IF Raised(n) THEN Raises("ArgumentTypeError")
    ELSE IF n.value < 1 THEN Raises("ArgumentTypeError")
    ELSE IF n.value > 65535 THEN Raises("ArgumentTypeError")
    ELSE Returns(n.value)

check_frequency(frequency) ==
    LET n == ToFloat(frequency) IN
    IF Raised(n) THEN Raises("ArgumentTypeError")
    ELSE IF FloatLe(n.value, 0) THEN Raises("ArgumentTypeError")
    ELSE Returns(n.value)

check_timeout(timeout) ==
    LET n == ToFloat(timeout) IN
    IF Raised(n) THEN Raises("ArgumentTypeError")
    ELSE IF FloatLe(n.value, 0) THEN Raises("ArgumentTypeError")
    ELSE Returns(n.value)

(***************************************************************************)
(* verify_config(configuration): Returns(<<ok, configuration'>>) with the  *)
(* configuration as the function has mutated it, or the exception a check  *)
(* raised.                                                                 *)
(***************************************************************************)
Has(d, key) == key \in DOMAIN d

verify_target(items) ==
    LET target == items.target
        port == IF Has(target, "port") THEN check_port(target.port) ELSE Returns(80)
        pathname == IF Has(target, "pathname") THEN target.pathname ELSE "/"
        protocol == IF Has(target, "protocol") THEN target.protocol ELSE "http"
        frequency == IF Has(target, "frequency")
                     THEN check_frequency(target.frequency) ELSE Returns(Num(1))
        timeout == IF Has(target, "timeout")
                   THEN check_timeout(target.timeout) ELSE Returns(Num(1))
        verify_ssl == IF Has(target, "verify_ssl") THEN target.verify_ssl ELSE TRUE
    IN  IF Raised(port) THEN port
        ELSE IF Raised(frequency) THEN frequency
        ELSE IF Raised(timeout) THEN timeout
        ELSE Returns(<<TRUE,
                 [items EXCEPT !.target =
                     [port |-> port.value, pathname |-> pathname,
                      protocol |-> protocol, frequency |-> frequency.value,
                      timeout |-> timeout.value, verify_ssl |-> verify_ssl]
                     @@ target]>>)

verify_config(configuration) ==
    IF ~Has(configuration, "dict") THEN Returns(<<FALSE, configuration>>)
    ELSE
      LET items == configuration.dict
          given == Has(items, "server") /\ Has(items.server, "port")
          server_port == IF given THEN check_port(items.server.port)
                         ELSE Returns(8000)
      IN  IF Raised(server_port) THEN server_port
          ELSE
            LET with_server ==
                  ("server" :> IF given
                               THEN [items.server EXCEPT !.port = server_port.value]
                               ELSE [port |-> 8000]) @@ items
            IN  IF ~Has(with_server, "target") THEN Returns(<<FALSE, with_server>>)
                ELSE IF ~Has(with_server.target, "address")
                     THEN Returns(<<FALSE, with_server>>)
                ELSE verify_target(with_server)

(***************************************************************************)
(* load_configuration(pathname), when the file holds Documents[k]: the     *)
(* returned bool and the new value of the global config, or the exception  *)
(* that leaves the function (only IOError is caught).                      *)
(***************************************************************************)
\* verify_config of each document (a function of the document alone)
Verified == [k \in 1..Len(Documents) |-> verify_config(Documents[k])]

load_configuration(k, old_config) ==
    IF Has(Documents[k], "ioerror") THEN Returns(<<FALSE, old_config>>)
    ELSE
      LET verified == Verified[k] IN
      IF Raised(verified) THEN verified
      ELSE IF verified.value[1] THEN Returns(<<TRUE, verified.value[2]>>)
      ELSE Returns(<<FALSE, old_config>>)


(***************************************************************************)
(* The exception classes requests.get can raise, with their direct base    *)
(* classes (requests.exceptions and the builtins they derive from).        *)
(***************************************************************************)
Bases ==
    [Exception |-> {},
     ValueError |-> {"Exception"},
     IOError |-> {"Exception"},
     RequestException |-> {"IOError"},
     HTTPError |-> {"RequestException"},
     ConnectionError |-> {"RequestException"},
     SSLError |-> {"ConnectionError"},
     Timeout |-> {"RequestException"},
     ConnectTimeout |-> {"ConnectionError", "Timeout"},
     ReadTimeout |-> {"Timeout"},
     TooManyRedirects |-> {"RequestException"},
     InvalidURL |-> {"RequestException", "ValueError"}]

RECURSIVE IsSubclass(_, _)
IsSubclass(class, base) ==
    \/ class = base
    \/ \E b \in Bases[class] : IsSubclass(b, base)

\* The failures of one GET: every class above that is not a mere base.
Raisable ==
    {"HTTPError", "ConnectionError", "SSLError", "ConnectTimeout", "ReadTimeout",
     "TooManyRedirects", "InvalidURL", "ValueError"}

\* The status codes of the responses of one GET.
StatusCodes == {200, 404, 500}

\* The values time.time() - now takes, in clock units.
Latencies == {1, 2}

\* Handlers without the last clause, except Exception.
HandlersWithoutCatchAll ==
    << [class |-> "HTTPError", type |-> "http"],
       [class |-> "ConnectionError", type |-> "connection"],
       [class |-> "TooManyRedirects", type |-> "redirects"],
       [class |-> "Timeout", type |-> "timeout"],
       [class |-> "RequestException", type |-> "request"] >>

\* Handlers with the label of one clause misspelt.
HandlersMislabelled ==
    << [class |-> "HTTPError", type |-> "http"],
       [class |-> "ConnectionError", type |-> "connection"],
       [class |-> "TooManyRedirects", type |-> "redirect"],
       [class |-> "Timeout", type |-> "timeout"],
       [class |-> "RequestException", type |-> "request"],
       [class |-> "Exception", type |-> "unknown"] >>

\* Handlers with the broad clause, except RequestException, tried first.
HandlersBroadFirst ==
    << [class |-> "RequestException", type |-> "request"],
       [class |-> "HTTPError", type |-> "http"],
       [class |-> "ConnectionError", type |-> "connection"],
       [class |-> "TooManyRedirects", type |-> "redirects"],
       [class |-> "Timeout", type |-> "timeout"],
       [class |-> "Exception", type |-> "unknown"] >>

\* The except clauses of http_request, in source order.
Handlers ==
    << [class |-> "HTTPError", type |-> "http"],
       [class |-> "ConnectionError", type |-> "connection"],
       [class |-> "TooManyRedirects", type |-> "redirects"],
       [class |-> "Timeout", type |-> "timeout"],
       [class |-> "RequestException", type |-> "request"],
       [class |-> "Exception", type |-> "unknown"] >>

\* The type label of the first except clause that catches exc, or
\* "uncaught" when none does.
Classify(exc) ==
    LET catching == {k \in 1..Len(Handlers) : IsSubclass(exc, Handlers[k].class)}
    IN  IF catching = {} THEN "uncaught"
        ELSE Handlers[CHOOSE k \in catching : \A j \in catching : k <= j].type

\* The label each failure of a GET is recorded under.
ErrorType == [exc \in Raisable |-> Classify(exc)]

(***************************************************************************)
(* Prometheus metrics: a labelled metric maps each label tuple that        *)
(* labels() has been called with to its child.                             *)
(***************************************************************************)
\* An increment that is not atomic: it writes 1 over a child another thread
\* has incremented meanwhile.
IncLostUpdate(counter, key) == (key :> 1) @@ counter

\* Counter.labels(key).inc()
Inc(counter, key) ==
    IF key \in DOMAIN counter
    THEN [counter EXCEPT ![key] = @ + 1]
    ELSE (key :> 1) @@ counter

\* Histogram.labels(key).observe(amount)
Observe(histogram, key, amount) ==
    IF key \in DOMAIN histogram
    THEN [histogram EXCEPT ![key] = [count |-> @.count + 1, sum |-> @.sum + amount]]
    ELSE (key :> [count |-> 1, sum |-> amount]) @@ histogram

\* f'{protocol}://{address}:{port}{pathname}'
Endpoint(protocol, address, port, pathname) ==
    <<protocol, "://", address, ":", ToString(port), pathname>>

(***************************************************************************)
(* State.                                                                  *)
(***************************************************************************)
VARIABLES
    config,                   \* the global config (a dict)
    pc,                       \* the main thread's position
    sighup,                   \* whether reload_configuration handles SIGHUP
    server,                   \* the port of the metrics endpoint, 0: not started
    locals,                   \* the local variables of main()
    threads,                  \* the threads main() has started, in order
    reloads,                  \* SIGHUP signals delivered
    replaced,                 \* history: a reload has rebound config since the
                              \* current cycle of main() made its first read
    http_requests_completed,  \* Counter (method, target, code)
    http_requests_errors,     \* Counter (method, target, type)
    latency_histogram         \* Histogram (method, target)

vars ==
    <<config, pc, sighup, server, locals, threads, reloads, replaced,
      http_requests_completed, http_requests_errors, latency_histogram>>

metrics == <<http_requests_completed, http_requests_errors, latency_histogram>>

EmptyDict == <<>>

Init ==
    /\ config = EmptyDict
    /\ pc = "load"
    /\ sighup = FALSE
    /\ server = 0
    /\ locals = EmptyDict
    /\ threads = <<>>
    /\ reloads = 0
    /\ replaced = FALSE
    /\ http_requests_completed = EmptyDict
    /\ http_requests_errors = EmptyDict
    /\ latency_histogram = EmptyDict

(***************************************************************************)
(* __main__: startup.                                                      *)
(***************************************************************************)
\* A startup that goes on to register the handler although the load failed.
startup_load_continue(k) ==
    /\ pc = "load"
    /\ pc' = "register"
    /\ LET loaded == load_configuration(k, config) IN
       IF Raised(loaded) THEN UNCHANGED config ELSE config' = loaded.value[2]
    /\ UNCHANGED <<sighup, server, locals, threads, reloads, replaced, metrics>>

\* load_configuration(arguments.config_file); sys.exit(-1) when it fails
startup_load(k) ==
    /\ pc = "load"
    /\ LET loaded == load_configuration(k, config) IN
       IF Raised(loaded) THEN pc' = "crashed" /\ UNCHANGED config
       ELSE /\ config' = loaded.value[2]
            /\ pc' = IF loaded.value[1] THEN "register" ELSE "exited"
    /\ UNCHANGED <<sighup, server, locals, threads, reloads, replaced, metrics>>

\* signal.signal(signal.SIGHUP, reload_configuration)
startup_signal ==
    /\ pc = "register"
    /\ sighup' = TRUE
    /\ pc' = "start_server"
    /\ UNCHANGED <<config, server, locals, threads, reloads, replaced, metrics>>

\* prometheus_client.start_http_server(config['server']['port']); main()
startup_server ==
    /\ pc = "start_server"
    /\ server' = config.server.port
    /\ pc' = "read_protocol"
    /\ UNCHANGED <<config, sighup, locals, threads, reloads, replaced, metrics>>

(***************************************************************************)
(* reload_configuration: the SIGHUP handler.  It runs in the main thread,  *)
(* between two of its bytecodes, and an exception it raises is raised in   *)
(* main() at that point.                                                   *)
(***************************************************************************)
MainRunning == pc \notin {"load", "register", "exited", "crashed"}

\* The model follows main() up to its MaxAttempts-th thread.start() and leaves
\* it there, before the sleep; the threads it has started run on.
Cut == pc = "sleep" /\ Len(threads) >= MaxAttempts

\* A reload that clears the metrics when it installs a configuration.
reload_configuration_resets(k) ==
    /\ sighup
    /\ MainRunning
    /\ ~Cut
    /\ reloads < MaxReloads
    /\ reloads' = reloads + 1
    /\ LET loaded == load_configuration(k, config) IN
       IF Raised(loaded)
       THEN pc' = "crashed" /\ UNCHANGED <<config, replaced, metrics>>
       ELSE /\ config' = loaded.value[2]
            /\ replaced' = (replaced \/ loaded.value[1])
            /\ IF loaded.value[1]
               THEN /\ http_requests_completed' = EmptyDict
                    /\ http_requests_errors' = EmptyDict
                    /\ latency_histogram' = EmptyDict
               ELSE UNCHANGED metrics
            /\ UNCHANGED pc
    /\ UNCHANGED <<sighup, server, locals, threads>>

reload_configuration(k) ==
    /\ sighup
    /\ MainRunning
    /\ ~Cut
    /\ reloads < MaxReloads
    /\ reloads' = reloads + 1
    /\ LET loaded == load_configuration(k, config) IN
       IF Raised(loaded) THEN pc' = "crashed" /\ UNCHANGED <<config, replaced>>
       ELSE /\ config' = loaded.value[2]
            /\ replaced' = (replaced \/ loaded.value[1])
            /\ UNCHANGED pc
    /\ UNCHANGED <<sighup, server, locals, threads, metrics>>

(***************************************************************************)
(* main(): one cycle of the loop.  Every config[...] expression loads the  *)
(* global anew.  A local that is dead (assigned anew before its next read) *)
(* is dropped from locals.                                                 *)
(***************************************************************************)
Read(position, next, name, value) ==
    /\ pc = position
    /\ locals' = (name :> value) @@ locals
    /\ pc' = next
    /\ UNCHANGED <<config, sighup, server, threads, reloads, replaced, metrics>>

main_protocol ==
    /\ pc = "read_protocol"
    /\ locals' = [protocol |-> config.target.protocol]
    /\ replaced' = FALSE
    /\ pc' = "read_address"
    /\ UNCHANGED <<config, sighup, server, threads, reloads, metrics>>

main_address == Read("read_address", "read_port", "address", config.target.address)

main_port == Read("read_port", "read_pathname", "port", config.target.port)

\* pathname, then target_endpoint = f'{protocol}://{address}:{port}{pathname}'
main_pathname ==
    /\ pc = "read_pathname"
    /\ LET pathname == config.target.pathname IN
       locals' = [target_endpoint |-> Endpoint(locals.protocol, locals.address,
                                               locals.port, pathname)]
    /\ pc' = "read_timeout"
    /\ UNCHANGED <<config, sighup, server, threads, reloads, replaced, metrics>>

\* A scheduler that passes the default timeout, whatever the configuration says.
main_timeout_default == Read("read_timeout", "read_verify_ssl", "timeout", Num(1))

main_timeout == Read("read_timeout", "read_verify_ssl", "timeout", config.target.timeout)

main_verify_ssl == Read("read_verify_ssl", "start", "verify", config.target.verify_ssl)

\* A started thread, at the first line of http_request.
NewThread(endpoint, timeout, verify) ==
    [pc |-> "get", endpoint |-> endpoint, timeout |-> timeout, verify |-> verify]

\* thread = Thread(target=http_request, args=(...)); thread.start()
\* The args tuple is the thread's from here on; target_endpoint stays a local.
main_start ==
    /\ pc = "start"
    /\ threads' = Append(threads,
                         NewThread(locals.target_endpoint, locals.timeout, locals.verify))
    /\ locals' = [target_endpoint |-> locals.target_endpoint]
    /\ pc' = "sleep"
    /\ UNCHANGED <<config, sighup, server, reloads, replaced, metrics>>

\* A wait of frequency seconds instead of 1 / frequency.
WaitFrequencySeconds(frequency) == [num |-> frequency.num, den |-> 1]

\* 1 / frequency, as a fraction
Wait(frequency) == [num |-> 1, den |-> frequency.num]

\* time.sleep(1 / config['target']['frequency']): the duration is computed and
\* the sleep begins.  1 / 0 raises ZeroDivisionError, time.sleep raises
\* ValueError on a negative duration and on not-a-number.
main_sleep ==
    /\ ~Cut
    /\ pc = "sleep"
    /\ LET frequency == config.target.frequency IN
       IF FloatGt(frequency, 0)
       THEN pc' = "sleeping" /\ locals' = [wait |-> Wait(frequency)] @@ locals
       ELSE pc' = "crashed" /\ UNCHANGED locals
    /\ UNCHANGED <<config, sighup, server, threads, reloads, replaced, metrics>>

\* time.sleep returns: the next cycle begins
main_wake ==
    /\ pc = "sleeping"
    /\ locals' = EmptyDict
    /\ pc' = "read_protocol"
    /\ UNCHANGED <<config, sighup, server, threads, reloads, replaced, metrics>>

(***************************************************************************)
(* http_request(endpoint, timeout, verify), run by thread i.               *)
(***************************************************************************)
\* A thread whose http_request has returned, or has been left by an exception.
Finished == [pc |-> "done"]

\* An attempt that calls response.raise_for_status(): a 4xx or 5xx response
\* becomes an HTTPError, recorded by the first except clause.
http_request_raise_for_status(i, code) ==
    /\ threads[i].pc = "get"
    /\ IF code >= 400
       THEN /\ http_requests_errors' =
                   Inc(http_requests_errors, <<"GET", threads[i].endpoint, "http">>)
            /\ threads' = [threads EXCEPT ![i] = [pc |-> "done"]]
            /\ UNCHANGED http_requests_completed
       ELSE /\ http_requests_completed' =
                   Inc(http_requests_completed, <<"GET", threads[i].endpoint, code>>)
            /\ threads' = [threads EXCEPT ![i] = [pc |-> "observe", endpoint |-> @.endpoint]]
            /\ UNCHANGED http_requests_errors
    /\ UNCHANGED <<config, pc, sighup, server, locals, reloads, replaced,
                   latency_histogram>>

\* An attempt that labels its completion with the endpoint of the config in
\* effect when the response arrives instead of the endpoint it was given.
http_request_response_relabelled(i, code) ==
    /\ threads[i].pc = "get"
    /\ http_requests_completed' =
           Inc(http_requests_completed,
               <<"GET", Endpoint(config.target.protocol, config.target.address,
                                 config.target.port, config.target.pathname), code>>)
    /\ threads' = [threads EXCEPT ![i] = [pc |-> "observe", endpoint |-> @.endpoint]]
    /\ UNCHANGED <<config, pc, sighup, server, locals, reloads, replaced,
                   http_requests_errors, latency_histogram>>

\* requests.get returns a response; http_requests_completed...inc()
http_request_response(i, code) ==
    /\ threads[i].pc = "get"
    /\ http_requests_completed' =
           Inc(http_requests_completed, <<"GET", threads[i].endpoint, code>>)
    /\ threads' = [threads EXCEPT ![i] = [pc |-> "observe", endpoint |-> @.endpoint]]
    /\ UNCHANGED <<config, pc, sighup, server, locals, reloads, replaced,
                   http_requests_errors, latency_histogram>>

\* latency = time.time() - now; latency_histogram...observe(latency)
http_request_observe(i, latency) ==
    /\ threads[i].pc = "observe"
    /\ latency_histogram' =
           Observe(latency_histogram, <<"GET", threads[i].endpoint>>, latency)
    /\ threads' = [threads EXCEPT ![i] = Finished]
    /\ UNCHANGED <<config, pc, sighup, server, locals, reloads, replaced,
                   http_requests_completed, http_requests_errors>>

\* An attempt that observes a latency for a failed GET too.
http_request_except_observes(i, exc) ==
    /\ threads[i].pc = "get"
    /\ http_requests_errors' =
           Inc(http_requests_errors, <<"GET", threads[i].endpoint, ErrorType[exc]>>)
    /\ latency_histogram' =
           Observe(latency_histogram, <<"GET", threads[i].endpoint>>, 1)
    /\ threads' = [threads EXCEPT ![i] = Finished]
    /\ UNCHANGED <<config, pc, sighup, server, locals, reloads, replaced,
                   http_requests_completed>>

\* requests.get raises exc; the first except clause that catches it counts it
http_request_except(i, exc) ==
    /\ threads[i].pc = "get"
    /\ LET type == ErrorType[exc] IN
       IF type = "uncaught"
       THEN UNCHANGED http_requests_errors   \* the exception ends the thread
       ELSE http_requests_errors' =
                Inc(http_requests_errors, <<"GET", threads[i].endpoint, type>>)
    /\ threads' = [threads EXCEPT ![i] = Finished]
    /\ UNCHANGED <<config, pc, sighup, server, locals, reloads, replaced,
                   http_requests_completed, latency_histogram>>

Next ==
    \/ \E k \in 1..Len(Documents) : startup_load(k)
    \/ startup_signal
    \/ startup_server
    \/ \E k \in 1..Len(Documents) : reload_configuration(k)
    \/ main_protocol
    \/ main_address
    \/ main_port
    \/ main_pathname
    \/ main_timeout
    \/ main_verify_ssl
    \/ main_start
    \/ main_sleep
    \/ main_wake
    \/ \E i \in 1..Len(threads) :
         \/ \E code \in StatusCodes : http_request_response(i, code)
         \/ \E latency \in Latencies : http_request_observe(i, latency)
         \/ \E exc \in Raisable : http_request_except(i, exc)

Spec == Init /\ [][Next]_vars

\* The steps of the main thread; SIGHUP is the environment's.
Main ==
    \/ \E k \in 1..Len(Documents) : startup_load(k)
    \/ startup_signal
    \/ startup_server
    \/ main_protocol
    \/ main_address
    \/ main_port
    \/ main_pathname
    \/ main_timeout
    \/ main_verify_ssl
    \/ main_start
    \/ main_sleep
    \/ main_wake

\* The main thread runs whenever it can (it only ever waits in time.sleep).
FairSpec == Spec /\ WF_vars(Main)

(***************************************************************************)
(* Definitions used by the properties.                                     *)
(***************************************************************************)
ErrorTypes == {"http", "connection", "redirects", "timeout", "request", "unknown"}

RECURSIVE SumOver(_, _)
SumOver(f, keys) ==
    IF keys = {} THEN 0
    ELSE LET k == CHOOSE x \in keys : TRUE IN f[k] + SumOver(f, keys \ {k})

\* The sum of the values of all children of a counter.
Total(counter) == SumOver(counter, DOMAIN counter)

\* counter' is counter with exactly one child incremented, by 1.
IncrementedOnce(before, after) ==
    /\ DOMAIN before \subseteq DOMAIN after
    /\ \A key \in DOMAIN before : after[key] >= before[key]
    /\ Total(after) = Total(before) + 1

Threads == 1..Len(threads)

InFlight == {i \in Threads : threads[i].pc # "done"}

\* The documents load_configuration accepts.
ValidDocuments ==
    {k \in 1..Len(Documents) :
        LET loaded == load_configuration(k, EmptyDict) IN
        ~Raised(loaded) /\ loaded.value[1]}

InvalidDocuments == (1..Len(Documents)) \ ValidDocuments

\* The endpoint of each configuration snapshot load_configuration can install.
SnapshotEndpoints ==
    {LET target == load_configuration(k, EmptyDict).value[2].target
     IN  Endpoint(target.protocol, target.address, target.port, target.pathname) :
     k \in ValidDocuments}

(***************************************************************************)
(* C1: every attempt makes exactly one counter increment: the step in      *)
(* which a thread's requests.get ends increments exactly one child of      *)
(* exactly one of the two counters by 1 (the completion counter when a     *)
(* response arrived, an error counter when the GET raised) and leaves the  *)
(* other counter alone, and the thread's remaining step, the latency       *)
(* observation, touches neither counter.                                   *)
(***************************************************************************)
C1_ExactlyOneIncrement ==
    [][\A i \in Threads :
         /\ (threads[i].pc = "get" /\ threads'[i].pc # "get") =>
               \/ /\ threads'[i].pc = "observe"
                  /\ IncrementedOnce(http_requests_completed, http_requests_completed')
                  /\ http_requests_errors' = http_requests_errors
               \/ /\ threads'[i].pc = "done"
                  /\ IncrementedOnce(http_requests_errors, http_requests_errors')
                  /\ http_requests_completed' = http_requests_completed
         /\ (threads[i].pc = "observe" /\ threads'[i].pc # "observe") =>
               /\ threads'[i].pc = "done"
               /\ http_requests_completed' = http_requests_completed
               /\ http_requests_errors' = http_requests_errors]_vars

\* Both kinds of attempt have finished: one counted as completed, one as error.
C1_Witness ==
    /\ InFlight = {}
    /\ Total(http_requests_completed) >= 1
    /\ Total(http_requests_errors) >= 1

(***************************************************************************)
(* C2: the endpoint of every started attempt, and the endpoint main() has  *)
(* composed, is the endpoint of one configuration snapshot: no endpoint    *)
(* mixes the fields of two snapshots.                                      *)
(***************************************************************************)
C2_EndpointFromOneSnapshot ==
    /\ \A i \in Threads :
         threads[i].pc = "get" => threads[i].endpoint \in SnapshotEndpoints
    /\ Has(locals, "target_endpoint") => locals.target_endpoint \in SnapshotEndpoints

(***************************************************************************)
(* C3: a reload of an invalid document is non-fatal: the handler leaves    *)
(* the global config as it was and no exception leaves it, so main() stays *)
(* where it was interrupted.                                               *)
(***************************************************************************)
C3_FailedReloadNonFatal ==
    [][reloads' # reloads =>
         \A k \in InvalidDocuments :
             reload_configuration(k) => config' = config /\ pc' = pc]_vars

(***************************************************************************)
(* C4: classification is total and contained: whatever the GET raises,     *)
(* the thread increments the error counter of its endpoint under a type    *)
(* of the closed set, under "unknown" when the failure is none of the five *)
(* named kinds, and the step changes nothing of the main thread.           *)
(***************************************************************************)
NamedKinds ==
    {"HTTPError", "ConnectionError", "TooManyRedirects", "Timeout", "RequestException"}

\* The failures that are none of the five named kinds.
Unanticipated == {exc \in Raisable : \A kind \in NamedKinds : ~IsSubclass(exc, kind)}

C4_ClassificationTotal ==
    [][\A i \in Threads :
         (threads[i].pc = "get" /\ threads'[i].pc = "done") =>
            /\ \E type \in ErrorTypes :
                 http_requests_errors' =
                     Inc(http_requests_errors, <<"GET", threads[i].endpoint, type>>)
            /\ \A exc \in Unanticipated :
                 http_request_except(i, exc) =>
                     http_requests_errors' =
                         Inc(http_requests_errors, <<"GET", threads[i].endpoint, "unknown">>)
            /\ UNCHANGED <<config, pc, locals>>]_vars

\* An unanticipated failure has been recorded, as "unknown".
C4_Witness ==
    \E key \in DOMAIN http_requests_errors :
        key[3] = "unknown" /\ http_requests_errors[key] >= 1

(***************************************************************************)
(* C5: every timeout failure of the GET (a read timeout or a connect       *)
(* timeout) is recorded under the type "timeout".                          *)
(***************************************************************************)
C5_TimeoutRecordedAsTimeout ==
    [][\A i \in Threads : \A exc \in Raisable :
         (threads[i].pc = "get" /\ threads'[i].pc # "get"
            /\ IsSubclass(exc, "Timeout") /\ http_request_except(i, exc)) =>
            http_requests_errors' =
                Inc(http_requests_errors, <<"GET", threads[i].endpoint, "timeout">>)]_vars

(***************************************************************************)
(* C6: under every interleaving of the threads, the completion counters    *)
(* and the error counters together sum to the number of attempts that      *)
(* have made their count (all of them once all have finished): no          *)
(* increment is lost, none is applied twice.                               *)
(***************************************************************************)
C6_CountersSumToAttempts ==
    Total(http_requests_completed) + Total(http_requests_errors)
        = Cardinality({i \in Threads : threads[i].pc # "get"})

\* Two attempts overlap and finish out of order: the second has finished and
\* is counted while the first is between its count and its observation.
C6_Witness ==
    /\ Len(threads) >= 2
    /\ threads[1].pc = "observe"
    /\ threads[2].pc = "done"

(***************************************************************************)
(* C7: the number of attempts in flight never exceeds a fixed cap.  In a   *)
(* run of MaxAttempts ticks the largest cap that says anything is          *)
(* MaxAttempts - 1.                                                        *)
(***************************************************************************)
InFlightCap == MaxAttempts - 1

C7_InFlightBounded == Cardinality(InFlight) <= InFlightCap

(***************************************************************************)
(* C8: under fairness of the main thread a next tick is always eventually  *)
(* dispatched: from every state in which main() has been entered and has   *)
(* started n threads, it starts thread n + 1.                              *)
(***************************************************************************)
C8_NextTickDispatched ==
    \A n \in 0..(MaxAttempts - 1) :
        (server # 0 /\ Len(threads) = n) ~> (Len(threads) = n + 1)

(***************************************************************************)
(* C9: when an attempt that got a response records its latency, the        *)
(* last-latency gauge of (GET, endpoint) holds that latency afterwards and *)
(* the histogram of (GET, endpoint) has one more observation, of that      *)
(* latency.                                                                *)
(***************************************************************************)
\* The metric families of the process: name -> children.
Family(name) ==
    CASE name = "http_probe_http_requests_completed" -> http_requests_completed
      [] name = "http_probe_http_requests_errors" -> http_requests_errors
      [] name = "http_probe_latency_seconds" -> latency_histogram
      [] OTHER -> EmptyDict

C9_LatencyInGaugeAndHistogram ==
    [][\A i \in Threads : \A latency \in Latencies :
         (threads[i].pc = "observe" /\ threads'[i].pc # "observe"
            /\ http_request_observe(i, latency)) =>
            LET key == <<"GET", threads[i].endpoint>>
                gauge == Family("http_probe_latest_latency_seconds")'
            IN  /\ key \in DOMAIN gauge
                /\ gauge[key] = latency
                /\ latency_histogram' = Observe(latency_histogram, key, latency)]_vars

(***************************************************************************)
(* C10: the error counter of the target of every started attempt has a     *)
(* child for every error type of the closed set (at 0 until a failure of   *)
(* that type is counted).                                                  *)
(***************************************************************************)
C10_ErrorSeriesPreRegistered ==
    \A i \in Threads :
        threads[i].pc = "get" =>
            \A type \in ErrorTypes :
                <<"GET", threads[i].endpoint, type>> \in DOMAIN http_requests_errors

(***************************************************************************)
(* C11: a successful reload takes effect on the next cycle: a cycle during *)
(* which no reload has rebound config (every cycle that begins after the   *)
(* installation of C and ends before the next one) dispatches its attempt  *)
(* with the endpoint composed from the config in effect and with its       *)
(* timeout and verify_ssl, never with values of an earlier snapshot.       *)
(***************************************************************************)
\* The endpoint of the configuration in effect.
CurrentEndpoint ==
    Endpoint(config.target.protocol, config.target.address,
             config.target.port, config.target.pathname)

C11_ReloadTakesEffectNextCycle ==
    [][(pc = "start" /\ pc' = "sleep" /\ ~replaced) =>
          LET started == threads'[Len(threads')] IN
          /\ started.endpoint = CurrentEndpoint
          /\ started.timeout = config.target.timeout
          /\ started.verify = config.target.verify_ssl]_vars

\* A reload during the first cycle has installed another configuration; the
\* second cycle, begun afterwards, has dispatched to the new endpoint with
\* the new timeout while the first attempt is still in flight.
C11_Witness ==
    /\ pc = "sleep"
    /\ ~replaced
    /\ reloads >= 1
    /\ Len(threads) = 2
    /\ threads[1].pc = "get"
    /\ threads[2].pc = "get"
    /\ threads[2].endpoint = CurrentEndpoint
    /\ threads[2].endpoint # threads[1].endpoint
    /\ threads[2].timeout = config.target.timeout
    /\ threads[2].timeout # threads[1].timeout

(***************************************************************************)
(* C12: a configuration-load failure at startup is fatal: when the initial *)
(* load_configuration does not succeed the process ends with a non-zero    *)
(* exit status, and it has registered no SIGHUP handler, started no        *)
(* metrics endpoint and dispatched no attempt, nor does it afterwards.     *)
(***************************************************************************)
\* The main thread has ended: by sys.exit(-1) or by an uncaught exception.
Ended == pc \in {"exited", "crashed"}

\* The exit status of the ended process: sys.exit(-1) gives 255, an uncaught
\* exception gives 1.
ExitStatus == IF pc = "exited" THEN 255 ELSE 1

C12_StartupFailureFatal ==
    [][/\ pc = "load" =>
            \A k \in InvalidDocuments :
                startup_load(k) =>
                    /\ Ended' /\ ExitStatus' # 0
                    /\ ~sighup' /\ server' = 0 /\ threads' = <<>>
       /\ ~(Ended /\ ~sighup)]_vars

\* The process has ended at startup on an out-of-range value, by the
\* exception a check raised.
C12_Witness ==
    /\ pc = "crashed"
    /\ ExitStatus = 1
    /\ ~sighup
    /\ server = 0
    /\ threads = <<>>

(***************************************************************************)
(* C13: every configuration main() can read is validated and complete:     *)
(* while main() runs, config has target.address, target.port and           *)
(* server.port are integers in 1..65535, target.frequency > 0,             *)
(* target.timeout > 0, protocol, pathname and verify_ssl are present, and  *)
(* each optional field the installed document left out holds its default   *)
(* (port 80, protocol "http", pathname "/", frequency 1, timeout 1,        *)
(* verify_ssl true, server.port 8000).                                     *)
(***************************************************************************)
\* config is what load_configuration installs for Documents[k], with the
\* defaults in the fields the document leaves out.
InstalledWithDefaults(k) ==
    LET items == Documents[k].dict
        given == items.target
    IN  /\ config = Verified[k].value[2]
        /\ ~Has(given, "port") => config.target.port = 80
        /\ ~Has(given, "protocol") => config.target.protocol = "http"
        /\ ~Has(given, "pathname") => config.target.pathname = "/"
        /\ ~Has(given, "frequency") => config.target.frequency = Num(1)
        /\ ~Has(given, "timeout") => config.target.timeout = Num(1)
        /\ ~Has(given, "verify_ssl") => config.target.verify_ssl = TRUE
        /\ ~(Has(items, "server") /\ Has(items.server, "port")) =>
               config.server.port = 8000

C13_SnapshotValidatedAndComplete ==
    MainRunning =>
        /\ Has(config, "target") /\ Has(config, "server")
        /\ Has(config.target, "address")
        /\ config.target.port \in 1..65535
        /\ config.server.port \in 1..65535
        /\ FloatGt(config.target.frequency, 0)
        /\ FloatGt(config.target.timeout, 0)
        /\ Has(config.target, "protocol")
        /\ Has(config.target, "pathname")
        /\ Has(config.target, "verify_ssl")
        /\ \E k \in ValidDocuments : InstalledWithDefaults(k)

(***************************************************************************)
(* C14: the wait between one dispatch and the next is 1/frequency of the   *)
(* configured frequency and is independent of the attempts: the sleep that *)
(* follows a dispatch lasts 1 over the frequency of the config in effect,  *)
(* config changes by a load only, and no step of an attempt (response,     *)
(* failure, latency observation) changes config, the position of main() or *)
(* its locals, the wait among them.                                        *)
(***************************************************************************)
C14_WaitIsReciprocalOfFrequency ==
    [][/\ (pc = "sleep" /\ pc' = "sleeping") =>
            locals'.wait = [num |-> 1, den |-> config.target.frequency.num]
       /\ config' # config => (pc = "load" \/ reloads' = reloads + 1)
       /\ (\E i \in Threads : threads'[i] # threads[i]) =>
            UNCHANGED <<config, pc, locals>>]_vars

\* main() sleeps 1/2 s after a dispatch at frequency 2, the attempt having
\* finished already with a latency of 2 observed.
C14_Witness ==
    /\ pc = "sleeping"
    /\ locals.wait = [num |-> 1, den |-> 2]
    /\ \E i \in Threads : threads[i].pc = "done"
    /\ \E key \in DOMAIN latency_histogram : latency_histogram[key].sum = 2

(***************************************************************************)
(* C15: the failure handlers go from the narrower category to the broader: *)
(* every failure of the GET is recorded under the first category it        *)
(* belongs to in the order http, connection, redirects, timeout, request,  *)
(* unknown; a failure that belongs to http, connection, redirects or       *)
(* timeout is never recorded as "request" or "unknown", and a              *)
(* redirect-limit failure is recorded as "redirects".                      *)
(***************************************************************************)
\* The first category of the order that exc belongs to.
FirstCategory(exc) ==
    IF IsSubclass(exc, "HTTPError") THEN "http"
    ELSE IF IsSubclass(exc, "ConnectionError") THEN "connection"
    ELSE IF IsSubclass(exc, "TooManyRedirects") THEN "redirects"
    ELSE IF IsSubclass(exc, "Timeout") THEN "timeout"
    ELSE IF IsSubclass(exc, "RequestException") THEN "request"
    ELSE "unknown"

FirstCategoryOf == [exc \in Raisable |-> FirstCategory(exc)]

\* The failures that belong to one of the four narrow categories.
Narrow ==
    {exc \in Raisable :
        \E kind \in {"HTTPError", "ConnectionError", "TooManyRedirects", "Timeout"} :
            IsSubclass(exc, kind)}

\* The children of the error counter that the step has created or changed.
ErrorsChanged ==
    {key \in DOMAIN http_requests_errors' :
        \/ key \notin DOMAIN http_requests_errors
        \/ http_requests_errors'[key] # http_requests_errors[key]}

C15_NarrowBeforeBroad ==
    [][\A i \in Threads :
         (threads[i].pc = "get" /\ threads'[i].pc = "done") =>
            /\ ErrorsChanged # {}
            /\ \A key \in ErrorsChanged : \A exc \in Raisable :
                 (ErrorType[exc] = key[3] /\ http_request_except(i, exc)) =>
                     /\ key = <<"GET", threads[i].endpoint, FirstCategoryOf[exc]>>
                     /\ exc \in Narrow => key[3] \notin {"request", "unknown"}
                     /\ exc = "TooManyRedirects" => key[3] = "redirects"]_vars

\* A redirect-limit failure has been recorded, under "redirects".
C15_Witness ==
    \E key \in DOMAIN http_requests_errors :
        key[3] = "redirects" /\ http_requests_errors[key] >= 1

(***************************************************************************)
(* C16: an attempt that receives a response counts as a completion         *)
(* whatever the status code, 4xx and 5xx included: the step increments the *)
(* completion counter of (GET, endpoint, code) by 1 and leaves every error *)
(* counter as it was.                                                      *)
(***************************************************************************)
\* The value of a child of a counter, 0 while labels() has not created it.
ValueOf(counter, key) == IF key \in DOMAIN counter THEN counter[key] ELSE 0

C16_AnyStatusIsCompletion ==
    [][\A i \in Threads :
         (threads[i].pc = "get" /\ threads'[i].pc # "get") =>
            \A code \in StatusCodes :
                http_request_response(i, code) =>
                    LET key == <<"GET", threads[i].endpoint, code>> IN
                    /\ ValueOf(http_requests_completed', key)
                           = ValueOf(http_requests_completed, key) + 1
                    /\ http_requests_errors' = http_requests_errors]_vars

\* Responses with a 4xx and with a 5xx status have been counted as
\* completions, and no error has been counted.
C16_Witness ==
    /\ \E key \in DOMAIN http_requests_completed :
          key[3] = 404 /\ http_requests_completed[key] >= 1
    /\ \E key \in DOMAIN http_requests_completed :
          key[3] = 500 /\ http_requests_completed[key] >= 1
    /\ Total(http_requests_errors) = 0

(***************************************************************************)
(* C17: all the configuration values of one cycle come from the snapshot   *)
(* of the cycle's endpoint: when the endpoint of a dispatched attempt is   *)
(* the endpoint of a snapshot, the attempt's timeout and verify flag are   *)
(* those of a snapshot with that endpoint, and the wait that follows the   *)
(* dispatch is 1/frequency of a snapshot with that endpoint.               *)
(***************************************************************************)
\* The target block of each configuration load_configuration can install.
Snapshots ==
    {load_configuration(k, EmptyDict).value[2].target : k \in ValidDocuments}

EndpointOf(target) ==
    Endpoint(target.protocol, target.address, target.port, target.pathname)

C17_CycleFromOneSnapshot ==
    /\ \A i \in Threads :
         (threads[i].pc = "get" /\ threads[i].endpoint \in SnapshotEndpoints) =>
            \E target \in Snapshots :
                /\ threads[i].endpoint = EndpointOf(target)
                /\ threads[i].timeout = target.timeout
                /\ threads[i].verify = target.verify_ssl
    /\ (pc = "sleeping" /\ locals.target_endpoint \in SnapshotEndpoints) =>
         \E target \in Snapshots :
             /\ locals.target_endpoint = EndpointOf(target)
             /\ FloatGt(target.frequency, 0)
             /\ locals.wait = [num |-> 1, den |-> target.frequency.num]

(***************************************************************************)
(* C18: latency is tracked for completed attempts only: for every endpoint *)
(* the histogram of (GET, endpoint) has at most as many observations as    *)
(* the completion counters of (GET, endpoint) sum to over all status       *)
(* codes, and exactly as many whenever no attempt to that endpoint is      *)
(* between its completion increment and its observation; the step of a     *)
(* failed attempt leaves the histogram unchanged.                          *)
(***************************************************************************)
\* The targets that label a child of the completion counter or the histogram.
Targets ==
    {key[2] : key \in DOMAIN http_requests_completed}
        \cup {key[2] : key \in DOMAIN latency_histogram}

\* The sum over all status codes of the completion counters of a target.
CompletedFor(target) ==
    SumOver(http_requests_completed,
            {key \in DOMAIN http_requests_completed : key[2] = target})

\* The number of observations of the histogram of a target.
ObservationsFor(target) ==
    IF <<"GET", target>> \in DOMAIN latency_histogram
    THEN latency_histogram[<<"GET", target>>].count ELSE 0

\* The attempts to a target between the completion increment and observe().
Observing(target) ==
    {i \in Threads : threads[i].pc = "observe" /\ threads[i].endpoint = target}

C18_LatencyForCompletedOnly ==
    /\ [](\A target \in Targets :
            /\ ObservationsFor(target) <= CompletedFor(target)
            /\ Observing(target) = {} => ObservationsFor(target) = CompletedFor(target))
    /\ [][\A i \in Threads :
            (threads[i].pc = "get" /\ threads'[i].pc = "done") =>
                latency_histogram' = latency_histogram]_vars

\* One attempt has failed and another is between its completion increment
\* and its observation: its endpoint has fewer observations than completions.
C18_Witness ==
    /\ Total(http_requests_errors) >= 1
    /\ \E i \in Threads :
          /\ threads[i].pc = "observe"
          /\ ObservationsFor(threads[i].endpoint) < CompletedFor(threads[i].endpoint)

(***************************************************************************)
(* C19: an attempt owns the values it was dispatched with: while it is in  *)
(* flight no step but its own changes its endpoint, timeout or verify      *)
(* flag, a reload changes no attempt, and its own steps keep its endpoint; *)
(* and every child of the completion counter, the error counter and the    *)
(* histogram that a step of the attempt touches has the attempt's endpoint *)
(* as its target label.                                                    *)
(***************************************************************************)
\* The children of the completion counter that the step has created or changed.
CompletedChanged ==
    {key \in DOMAIN http_requests_completed' :
        \/ key \notin DOMAIN http_requests_completed
        \/ http_requests_completed'[key] # http_requests_completed[key]}

\* The children of the histogram that the step has created or changed.
HistogramChanged ==
    {key \in DOMAIN latency_histogram' :
        \/ key \notin DOMAIN latency_histogram
        \/ latency_histogram'[key] # latency_histogram[key]}

C19_AttemptOwnsItsValues ==
    [][/\ reloads' # reloads => threads' = threads
       /\ \A i \in Threads :
            /\ threads'[i].pc = "get" => threads'[i] = threads[i]
            /\ threads'[i].pc = "observe" => threads'[i].endpoint = threads[i].endpoint
            /\ threads'[i] # threads[i] =>
                  /\ \A key \in CompletedChanged : key[2] = threads[i].endpoint
                  /\ \A key \in ErrorsChanged : key[2] = threads[i].endpoint
                  /\ \A key \in HistogramChanged : key[2] = threads[i].endpoint
                  /\ CompletedChanged \cup ErrorsChanged \cup HistogramChanged # {}]_vars

\* An attempt dispatched before a reload has recorded its completion after
\* it, under the endpoint it was sent to: the config in effect has another
\* endpoint, and no child of the completion counter has that one.
C19_Witness ==
    /\ reloads >= 1
    /\ \E i \in Threads :
          /\ threads[i].pc = "observe"
          /\ threads[i].endpoint # CurrentEndpoint
          /\ \E key \in DOMAIN http_requests_completed : key[2] = threads[i].endpoint
    /\ \A key \in DOMAIN http_requests_completed : key[2] # CurrentEndpoint

(***************************************************************************)
(* C20: metric state is monotonic: in every step every child of the        *)
(* completion counter, of the error counter and of the histogram stays,    *)
(* no counter value and no observation count decreases, and a reload,      *)
(* successful or failed, leaves all three metrics as they were.            *)
(***************************************************************************)
C20_MetricsMonotonic ==
    [][/\ \A key \in DOMAIN http_requests_completed :
            /\ key \in DOMAIN http_requests_completed'
            /\ http_requests_completed'[key] >= http_requests_completed[key]
       /\ \A key \in DOMAIN http_requests_errors :
            /\ key \in DOMAIN http_requests_errors'
            /\ http_requests_errors'[key] >= http_requests_errors[key]
       /\ \A key \in DOMAIN latency_histogram :
            /\ key \in DOMAIN latency_histogram'
            /\ latency_histogram'[key].count >= latency_histogram[key].count
       /\ reloads' # reloads => UNCHANGED metrics]_vars

\* After a reload to another endpoint the completion, error and latency
\* series of the earlier endpoint stand, every attempt having finished.
C20_Witness ==
    /\ reloads >= 1
    /\ InFlight = {}
    /\ \E key \in DOMAIN http_requests_completed : key[2] # CurrentEndpoint
    /\ \E key \in DOMAIN http_requests_errors : key[2] # CurrentEndpoint
    /\ \E key \in DOMAIN latency_histogram :
          key[2] # CurrentEndpoint /\ latency_histogram[key].count >= 1

=============================================================================
